---------------------------- MODULE Spec2Model ----------------------------
(* A model of src/app.py: the leaderboard percentile-curve service.        *)
(* The remote leaderboard is a value (a board of pages); every remote      *)
(* fetch of the handler api_curve is one step, which may fail.             *)
EXTENDS Integers, Sequences, FiniteSets, TLC

VARIABLES remote, cache, clock, calls, log, req, dom, probe

vars == <<remote, cache, clock, calls, log, req, dom, probe>>

(***************************************************************************)
(* JSON scalars as the code reads them.  A field is null/absent, a number  *)
(* (or a numeric string), or a non-numeric string ("bad").                 *)
(***************************************************************************)
Null == [tag |-> "null", n |-> 0]

Num(i) == [tag |-> "num", n |-> i]

Bad == [tag |-> "bad", n |-> 0]

\* int(v or 0): null and 0 give 0, a number gives itself, a non-numeric
\* string raises ValueError (ok = FALSE).
int_or_zero(v) == [ok |-> v.tag # "bad", val |-> IF v.tag = "num" THEN v.n ELSE 0]

(***************************************************************************)
(* Texts are tuples of one-character strings, or null.                     *)
(***************************************************************************)
NoText == [tag |-> "null", s |-> <<>>]

Str(chars) == [tag |-> "str", s |-> chars]

\* Python truthiness of an optional string: None and "" are falsy.
Truthy(t) == t.tag = "str" /\ t.s # <<>>

Digits == <<"0", "1", "2", "3", "4", "5", "6", "7", "8", "9">>

IsDigit(c) == \E d \in 1..10 : Digits[d] = c

DigitVal(c) == (CHOOSE d \in 1..10 : Digits[d] = c) - 1

IsSpace(c) == c \in {" ", "\n", "\t"}

\* re.IGNORECASE on the literal "rep"
Lower(c) == CASE c = "R" -> "r" [] c = "E" -> "e" [] c = "P" -> "p" [] OTHER -> c

RECURSIVE DigitsEnd(_, _)
DigitsEnd(s, i) == IF i <= Len(s) /\ IsDigit(s[i]) THEN DigitsEnd(s, i + 1) ELSE i

RECURSIVE SpacesEnd(_, _)
SpacesEnd(s, i) == IF i <= Len(s) /\ IsSpace(s[i]) THEN SpacesEnd(s, i + 1) ELSE i

\* r"(\d+)\s*rep" matches at position i: a maximal run of digits from i,
\* any white space, then "rep" in either case.
MatchAt(s, i) ==
    LET j == DigitsEnd(s, i)
        k == SpacesEnd(s, j)
    IN  /\ j > i
        /\ k + 2 <= Len(s)
        /\ Lower(s[k]) = "r" /\ Lower(s[k + 1]) = "e" /\ Lower(s[k + 2]) = "p"

RECURSIVE DigitsInt(_, _, _, _)
DigitsInt(s, i, j, acc) ==
    IF i >= j THEN acc ELSE DigitsInt(s, i + 1, j, 10 * acc + DigitVal(s[i]))

NoReps == [found |-> FALSE, val |-> 0]

\* re.search: the leftmost match; int(m.group(1))
re_search_reps(s) ==
    LET hits == {i \in 1..Len(s) : MatchAt(s, i)}
    IN  IF hits = {} THEN NoReps
        ELSE LET i == CHOOSE x \in hits : \A y \in hits : x <= y
             IN  [found |-> TRUE, val |-> DigitsInt(s, i, DigitsEnd(s, i), 0)]

\* _parse_reps: the breakdown first, then the score display.
parse_reps(score_display, breakdown) ==
    LET b == IF Truthy(breakdown) THEN re_search_reps(breakdown.s) ELSE NoReps
        d == IF Truthy(score_display) THEN re_search_reps(score_display.s) ELSE NoReps
    IN  IF b.found THEN b ELSE d

\* 100.0 * (1.0 - (rank - 1) / total), kept as an exact fraction num/den.
percentile_from_rank(rank, total_competitors) ==
    [num |-> 100 * (total_competitors - (rank - 1)), den |-> total_competitors]

\* p < q for fractions with positive denominators
PctLess(p, q) == p.num * q.den < q.num * p.den

(***************************************************************************)
(* The page sampler.                                                       *)
(***************************************************************************)
Max2(a, b) == IF a >= b THEN a ELSE b

Min2(a, b) == IF a <= b THEN a ELSE b

\* math.ceil(a / b) for a > 0 and b # 0
CeilDiv(a, b) == IF b > 0 THEN (a + b - 1) \div b ELSE 0 - (a \div (0 - b))

RECURSIVE SortedSeq(_)
SortedSeq(S) ==
    IF S = {} THEN <<>>
    ELSE LET m == CHOOSE x \in S : \A y \in S : x <= y
         IN  <<m>> \o SortedSeq(S \ {m})

SeqSet(s) == {s[i] : i \in 1..Len(s)}

\* A variant of SampleStep: the step is rounded down, so the buckets can
\* outnumber target_buckets.
SampleStepFloor(total_pages, target_buckets) ==
    Max2(1, total_pages \div target_buckets)

\* step = max(1, math.ceil(total_pages / target_buckets))
SampleStep(total_pages, target_buckets) ==
    Max2(1, CeilDiv(total_pages, target_buckets))

RECURSIVE BucketMids(_, _, _)
BucketMids(start, total_pages, step) ==
    IF start > total_pages THEN <<>>
    ELSE LET end == Min2(total_pages, start + step - 1)
         IN  <<(start + end) \div 2>> \o BucketMids(start + step, total_pages, step)

\* _make_page_samples; ok = FALSE is ZeroDivisionError (target_buckets = 0)
make_page_samples(total_pages, target_buckets) ==
    IF total_pages <= 0 THEN [ok |-> TRUE, pages |-> <<1>>]
    ELSE IF target_buckets = 0 THEN [ok |-> FALSE, pages |-> <<>>]
    ELSE [ok |-> TRUE,
          pages |-> SortedSeq(SeqSet(BucketMids(1, total_pages,
                                   SampleStep(total_pages, target_buckets))))]

\* api_curve, lines 193-194: page 1 is always included
force_page_one(sample_pages) ==
    IF 1 \in SeqSet(sample_pages) THEN sample_pages
    ELSE SortedSeq({1} \cup SeqSet(sample_pages))

(***************************************************************************)
(* Rows, scores and pages of the remote response.                          *)
(* A row's "scores" key is absent or a list; a page JSON is a dict (the    *)
(* empty dict {} has present = FALSE).                                     *)
(***************************************************************************)
NoScores == [tag |-> "absent", items |-> <<>>]

ScoreList(items) == [tag |-> "list", items |-> items]

Score(display, breakdown, valid) ==
    [scoreDisplay |-> display, breakdown |-> breakdown, valid |-> valid]

\* the dict {}: every .get on it gives None
EmptyScore == Score(NoText, NoText, "")

Row(rank, scores) == [overallRank |-> rank, scores |-> scores]

NoPagination == [totalPages |-> Null, totalCompetitors |-> Null]

EmptyJson == [present |-> FALSE, pagination |-> NoPagination, leaderboardRows |-> <<>>]

PageJson(pagination, rows) ==
    [present |-> TRUE, pagination |-> pagination, leaderboardRows |-> rows]

\* row.get("scores", [{}])[0]: the default only when the key is absent; an
\* empty list raises IndexError (ok = FALSE)
first_score_or_default(row) ==
    IF row.scores.tag = "absent" THEN [ok |-> TRUE, score |-> EmptyScore]
    ELSE IF row.scores.items = <<>> THEN [ok |-> FALSE, score |-> EmptyScore]
    ELSE [ok |-> TRUE, score |-> row.scores.items[1]]

\* scores = row.get("scores") or []; first = scores[0] if scores else {}
first_score(row) ==
    IF row.scores.items = <<>> THEN EmptyScore ELSE row.scores.items[1]

RECURSIVE AnyDisplay(_, _)
AnyDisplay(rows, i) ==
    IF i > Len(rows) THEN "no"
    ELSE LET f == first_score_or_default(rows[i])
         IN  IF ~f.ok THEN "error"
             ELSE IF Truthy(f.score.scoreDisplay) THEN "yes"
             ELSE AnyDisplay(rows, i + 1)

\* _page_has_submissions: "yes", "no", or "error" (IndexError)
page_has_submissions(page_json) == AnyDisplay(page_json.leaderboardRows, 1)

RECURSIVE MaxRankFrom(_, _, _)
MaxRankFrom(rows, i, max_rank) ==
    IF i > Len(rows) THEN [ok |-> TRUE, val |-> max_rank]
    ELSE LET f == first_score_or_default(rows[i])
             r == int_or_zero(rows[i].overallRank)
         IN  IF ~f.ok THEN [ok |-> FALSE, val |-> 0]
             ELSE IF Truthy(f.score.scoreDisplay) /\ r.ok
                  THEN MaxRankFrom(rows, i + 1, Max2(max_rank, r.val))
             ELSE MaxRankFrom(rows, i + 1, max_rank)

\* a variant that stops at the first row with a score display
RECURSIVE MinRankFrom(_, _)
MinRankFrom(rows, i) ==
    IF i > Len(rows) THEN [ok |-> TRUE, val |-> 0]
    ELSE LET f == first_score_or_default(rows[i])
             r == int_or_zero(rows[i].overallRank)
         IN  IF ~f.ok THEN [ok |-> FALSE, val |-> 0]
             ELSE IF Truthy(f.score.scoreDisplay) /\ r.ok
                  THEN [ok |-> TRUE, val |-> r.val]
             ELSE MinRankFrom(rows, i + 1)

max_submitted_rank_first(page_json) == MinRankFrom(page_json.leaderboardRows, 1)

\* _max_submitted_rank; ok = FALSE is IndexError
max_submitted_rank(page_json) == MaxRankFrom(page_json.leaderboardRows, 1, 0)

Point(rank, reps, pct_base) ==
    [rank |-> rank, reps |-> reps, percentile |-> percentile_from_rank(rank, pct_base)]

\* A variant of emits_point: a point needs a valid score as well.
emits_point_valid_only(valid, reps, rank, pct_base) ==
    valid /\ reps.found /\ rank > 0 /\ pct_base > 0

\* line 124: if reps is None or rank <= 0 or pct_base <= 0: continue
emits_point(valid, reps, rank, pct_base) ==
    reps.found /\ rank > 0 /\ pct_base > 0

RECURSIVE ExtractFrom(_, _, _, _, _)
ExtractFrom(rows, i, total_competitors, total_submitted, acc) ==
    IF i > Len(rows) THEN acc
    ELSE LET row   == rows[i]
             rk    == int_or_zero(row.overallRank)
             first == first_score(row)
             valid == first.valid = "1"
             reps  == parse_reps(first.scoreDisplay, first.breakdown)
             pct_base == IF total_submitted # 0 THEN total_submitted
                         ELSE total_competitors
             counted == [acc EXCEPT !.total_rows = @ + 1]
         IN  IF ~rk.ok THEN
                 ExtractFrom(rows, i + 1, total_competitors, total_submitted, counted)
             ELSE LET sub == IF valid /\ reps.found
                             THEN [counted EXCEPT !.submitted_rows = @ + 1]
                             ELSE counted
                      out == IF emits_point(valid, reps, rk.val, pct_base)
                             THEN [sub EXCEPT !.points =
                                      Append(@, Point(rk.val, reps.val, pct_base))]
                             ELSE sub
                  IN  ExtractFrom(rows, i + 1, total_competitors, total_submitted, out)

\* _extract_points_from_page; ok = FALSE is ValueError (totalCompetitors)
extract_points_from_page(page_json, fallback_total, total_submitted) ==
    LET tc == int_or_zero(page_json.pagination.totalCompetitors)
        total_competitors == IF tc.val # 0 THEN tc.val ELSE fallback_total
        zero == [ok |-> TRUE, points |-> <<>>, submitted_rows |-> 0, total_rows |-> 0]
    IN  IF ~tc.ok THEN [zero EXCEPT !.ok = FALSE]
        ELSE ExtractFrom(page_json.leaderboardRows, 1, total_competitors,
                         total_submitted, zero)

(***************************************************************************)
(* Dedupe by rank and sort by percentile (api_curve, lines 214-223).       *)
(***************************************************************************)
IndexOfRank(by_rank, r) ==
    LET hits == {i \in 1..Len(by_rank) : by_rank[i].rank = r}
    IN  IF hits = {} THEN 0 ELSE CHOOSE i \in hits : TRUE

\* A variant of replaces: the last writer wins.
replaces_always(pt, old) == TRUE

\* line 218: pt["reps"] > by_rank[r]["reps"]
replaces(pt, old) == pt.reps > old.reps

\* by_rank is a dict: insertion order is the order of first appearance
RECURSIVE DedupeFrom(_, _, _)
DedupeFrom(all_points, i, by_rank) ==
    IF i > Len(all_points) THEN by_rank
    ELSE LET pt == all_points[i]
             j  == IndexOfRank(by_rank, pt.rank)
         IN  DedupeFrom(all_points, i + 1,
                 IF j = 0 THEN Append(by_rank, pt)
                 ELSE IF replaces(pt, by_rank[j]) THEN [by_rank EXCEPT ![j] = pt]
                 ELSE by_rank)

dedupe_by_rank(all_points) == DedupeFrom(all_points, 1, <<>>)

\* list.sort is stable: pt goes after every point that is not greater
RECURSIVE InsertByPct(_, _)
InsertByPct(sorted, pt) ==
    IF sorted = <<>> THEN <<pt>>
    ELSE IF PctLess(pt.percentile, Head(sorted).percentile) THEN <<pt>> \o sorted
    ELSE <<Head(sorted)>> \o InsertByPct(Tail(sorted), pt)

RECURSIVE SortFrom(_, _, _)
SortFrom(points, i, sorted) ==
    IF i > Len(points) THEN sorted
    ELSE SortFrom(points, i + 1, InsertByPct(sorted, points[i]))

sort_by_percentile(points) == SortFrom(points, 1, <<>>)

(***************************************************************************)
(* The cache and the payload.                                              *)
(***************************************************************************)
CACHE_TTL_SECONDS == 60

\* A variant of cache_fresh: the comparison is turned round.
cache_fresh_inverted(now, ts) == (now - ts) > CACHE_TTL_SECONDS

\* line 177: (now - cached["ts"]) < CACHE_TTL_SECONDS
cache_fresh(now, ts) == (now - ts) < CACHE_TTL_SECONDS

Query(division, region) ==
    [division |-> division, region |-> region, scaled |-> "0", view |-> "0", sort |-> "0"]

\* sorted(params.keys()) of {**base_params, "buckets": buckets}
SortedKeys == <<"buckets", "division", "region", "scaled", "sort", "view">>

Params(q, buckets) ==
    [buckets |-> ToString(buckets), division |-> q.division, region |-> q.region,
     scaled |-> q.scaled, sort |-> q.sort, view |-> q.view]

RECURSIVE JoinFrom(_, _)
JoinFrom(params, i) ==
    LET kv == SortedKeys[i] \o "=" \o params[SortedKeys[i]]
    IN  IF i = Len(SortedKeys) THEN kv ELSE kv \o "&" \o JoinFrom(params, i + 1)

\* _cache_key: "&".join(f"{k}={params[k]}" for k in sorted(params.keys()))
cache_key(q, buckets) == JoinFrom(Params(q, buckets), 1)

NoRate == [tag |-> "null", num |-> 0, den |-> 1]

\* (submitted_rows / total_rows) if total_rows else None
submission_rate(submitted_rows, total_rows) ==
    IF total_rows # 0 THEN [tag |-> "num", num |-> submitted_rows, den |-> total_rows]
    ELSE NoRate

\* lines 228-248
build_payload(r, points) ==
    [meta |-> [year |-> 2026, competition |-> "open",
               division |-> r.q.division, region |-> r.q.region,
               scaled |-> r.q.scaled, view |-> r.q.view, sort |-> r.q.sort,
               totalPages |-> r.total_pages,
               totalCompetitors |-> r.total_competitors,
               lastSubmissionPage |-> r.last_sub_page,
               totalSubmitted |-> r.total_submitted,
               sampledPages |-> Len(r.sample_pages),
               sampledRows |-> r.total_rows,
               sampledSubmittedRows |-> r.submitted_rows,
               estimatedSubmissionRate |-> submission_rate(r.submitted_rows, r.total_rows)],
     points |-> points]

NoQuery == Query("", "")

IdleCore ==
    [pc |-> "idle", err |-> "", q |-> NoQuery, buckets |-> 0, ck |-> "", now |-> 0,
     seen |-> 0, hit |-> FALSE, fetches |-> 0, nsearch |-> 0,
     first |-> EmptyJson, total_pages |-> 0, total_competitors |-> 0,
     lo |-> 0, hi |-> 0, last_json |-> EmptyJson, last_sub_page |-> 0,
     total_submitted |-> 0, sample_pages |-> <<>>, idx |-> 0,
     all_points |-> <<>>, submitted_rows |-> 0, total_rows |-> 0]

NoPayload == build_payload(IdleCore, <<>>)

\* a request thread before its first call
IdleReq ==
    [f \in DOMAIN IdleCore \cup {"payload"} |->
        IF f = "payload" THEN NoPayload ELSE IdleCore[f]]

(***************************************************************************)
(* The remote API: _get_json(params) returns the page of the board the     *)
(* remote holds now; a request without "page" gets the first page.         *)
(***************************************************************************)
get_json(board, page) ==
    PageJson(board.pagination,
             IF page \in 1..Len(board.pages) THEN board.pages[page] ELSE <<>>)

(***************************************************************************)
(* api_curve, one step per remote fetch or local stage.                    *)
(***************************************************************************)
MaxClock == 60

TickStep == CACHE_TTL_SECONDS \div 2

Threads == {"t1", "t2"}

Others == <<remote, clock, dom, probe>>

Failed(r, err) == [r EXCEPT !.pc = "failed", !.err = err]

\* lines 159-178: the parameters, the cache key, the cache lookup
Start(t, q, b) ==
    /\ req[t].pc \in {"idle", "done", "failed"}
    /\ calls < dom.max_calls
    /\ calls' = calls + 1
    /\ LET bk == int_or_zero(b)
           ck == cache_key(q, bk.val)
           r0 == [IdleReq EXCEPT !.q = q, !.buckets = bk.val, !.ck = ck,
                                 !.now = clock, !.seen = Len(log)]
       IN  req' = [req EXCEPT ![t] =
                IF b.tag # "num" THEN Failed([IdleReq EXCEPT !.q = q], "ValueError")
                ELSE IF ck \in DOMAIN cache /\ cache_fresh(clock, cache[ck].ts)
                THEN [r0 EXCEPT !.pc = "done", !.hit = TRUE,
                                !.payload = cache[ck].payload]
                ELSE [r0 EXCEPT !.pc = "meta"]]
    /\ UNCHANGED <<cache, log>>
    /\ UNCHANGED Others

\* lines 181-184: the metadata fetch
FetchMeta(t) ==
    /\ req[t].pc = "meta"
    /\ LET r == [req[t] EXCEPT !.fetches = @ + 1]
       IN  \/ req' = [req EXCEPT ![t] = Failed(r, "transport")]
           \/ LET first == get_json(remote, 1)
                  tp == int_or_zero(first.pagination.totalPages)
                  tc == int_or_zero(first.pagination.totalCompetitors)
              IN  req' = [req EXCEPT ![t] =
                      IF ~tp.ok \/ ~tc.ok THEN Failed(r, "ValueError")
                      ELSE [r EXCEPT !.pc = "search", !.first = first,
                                     !.total_pages = tp.val,
                                     !.total_competitors = tc.val,
                                     !.lo = 1, !.hi = tp.val,
                                     !.last_json = EmptyJson]]
    /\ UNCHANGED <<cache, log, calls>>
    /\ UNCHANGED Others

\* A variant of Mid: a linear scan, one page at a time.
MidLinear(lo, hi) == lo + 1

\* line 67: mid = (lo + hi + 1) // 2
Mid(lo, hi) == (lo + hi + 1) \div 2

\* A variant of HiAfterMiss: one page too far.
HiAfterMissSkip(mid) == mid - 2

\* line 73: hi = mid - 1
HiAfterMiss(mid) == mid - 1

\* lines 66-73: one iteration of the binary search
SearchProbe(t) ==
    /\ req[t].pc = "search"
    /\ req[t].lo < req[t].hi
    /\ LET r   == [req[t] EXCEPT !.fetches = @ + 1, !.nsearch = @ + 1]
           mid == Mid(r.lo, r.hi)
       IN  \/ req' = [req EXCEPT ![t] = Failed(r, "transport")]
           \/ LET page_json == get_json(remote, mid)
                  has == page_has_submissions(page_json)
              IN  req' = [req EXCEPT ![t] =
                      IF has = "error" THEN Failed(r, "IndexError")
                      ELSE IF has = "yes"
                      THEN [r EXCEPT !.lo = mid, !.last_json = page_json]
                      ELSE [r EXCEPT !.hi = HiAfterMiss(mid)]]
    /\ UNCHANGED <<cache, log, calls>>
    /\ UNCHANGED Others

\* lines 74-76 and 189: the re-fetch when no page was retained, the return
SearchReturn(t) ==
    /\ req[t].pc = "search"
    /\ ~(req[t].lo < req[t].hi)
    /\ LET r == req[t]
           f == [r EXCEPT !.fetches = @ + 1, !.nsearch = @ + 1]
       IN  \/ /\ ~r.last_json.present
              /\ req' = [req EXCEPT ![t] = Failed(f, "transport")]
           \/ /\ ~r.last_json.present
              /\ req' = [req EXCEPT ![t] =
                     [f EXCEPT !.pc = "plan", !.last_sub_page = f.lo,
                               !.last_json = get_json(remote, f.lo)]]
           \/ /\ r.last_json.present
              /\ req' = [req EXCEPT ![t] =
                     [r EXCEPT !.pc = "plan", !.last_sub_page = r.lo]]
    /\ UNCHANGED <<cache, log, calls>>
    /\ UNCHANGED Others

\* lines 190-198: total_submitted and the pages to sample
Plan(t) ==
    /\ req[t].pc = "plan"
    /\ LET r  == req[t]
           ts == max_submitted_rank(r.last_json)
           sp == make_page_samples(r.last_sub_page, r.buckets)
       IN  req' = [req EXCEPT ![t] =
               IF ~ts.ok THEN Failed(r, "IndexError")
               ELSE IF ~sp.ok THEN Failed(r, "ZeroDivisionError")
               ELSE [r EXCEPT !.pc = "loop", !.total_submitted = ts.val,
                              !.sample_pages = force_page_one(sp.pages),
                              !.idx = 1, !.all_points = <<>>,
                              !.submitted_rows = 0, !.total_rows = 0]]
    /\ UNCHANGED <<cache, log, calls>>
    /\ UNCHANGED Others

\* lines 209-212: the points and the counts of one sampled page
Accumulate(r, page_json) ==
    LET e == extract_points_from_page(page_json, r.total_competitors, r.total_submitted)
    IN  IF ~e.ok THEN Failed(r, "ValueError")
        ELSE [r EXCEPT !.all_points = @ \o e.points,
                       !.submitted_rows = @ + e.submitted_rows,
                       !.total_rows = @ + e.total_rows,
                       !.idx = @ + 1]

\* A variant of sampling_done: the last sampled page is left out.
sampling_done_early(r) == r.idx >= Len(r.sample_pages)

\* line 201: the for loop has gone through sample_pages
sampling_done(r) == r.idx > Len(r.sample_pages)

\* lines 201-212: one iteration of the loop over sample_pages
SamplePage(t) ==
    /\ req[t].pc = "loop"
    /\ ~sampling_done(req[t])
    /\ LET r == req[t]
           p == r.sample_pages[r.idx]
           f == [r EXCEPT !.fetches = @ + 1]
       IN  \/ /\ p = 1
              /\ req' = [req EXCEPT ![t] = Accumulate(r, r.first)]
           \/ /\ p # 1 /\ p = r.last_sub_page
              /\ req' = [req EXCEPT ![t] = Accumulate(r, r.last_json)]
           \/ /\ p # 1 /\ p # r.last_sub_page
              /\ req' = [req EXCEPT ![t] = Failed(f, "transport")]
           \/ /\ p # 1 /\ p # r.last_sub_page
              /\ req' = [req EXCEPT ![t] = Accumulate(f, get_json(remote, p))]
    /\ UNCHANGED <<cache, log, calls>>
    /\ UNCHANGED Others

\* lines 214-251: dedupe, sort, the payload, the cache write
Finish(t) ==
    /\ req[t].pc = "loop"
    /\ sampling_done(req[t])
    /\ LET r == req[t]
           points == sort_by_percentile(dedupe_by_rank(r.all_points))
           payload == build_payload(r, points)
           entry == [ts |-> r.now, payload |-> payload]
       IN  /\ req' = [req EXCEPT ![t] = [r EXCEPT !.pc = "done", !.payload = payload]]
           /\ cache' = [k \in DOMAIN cache \cup {r.ck} |->
                           IF k = r.ck THEN entry ELSE cache[k]]
           /\ log' = Append(log, [key |-> r.ck, q |-> r.q, buckets |-> r.buckets,
                                  ts |-> r.now, payload |-> payload,
                                  processed |-> r.idx - 1])
    /\ UNCHANGED calls
    /\ UNCHANGED Others

\* time.time() moves on between the steps of the threads
Tick ==
    /\ clock + TickStep <= MaxClock
    /\ clock' = clock + TickStep
    /\ UNCHANGED <<remote, cache, calls, log, req, dom, probe>>

\* the leaderboard changes under the service
RemoteChange ==
    /\ \E i \in 1..(Len(dom.boards) - 1) :
           remote = dom.boards[i] /\ remote' = dom.boards[i + 1]
    /\ UNCHANGED <<cache, clock, calls, log, req, dom, probe>>

Step(t) ==
    \/ \E in \in dom.inputs : Start(t, in[1], in[2])
    \/ FetchMeta(t)
    \/ SearchProbe(t)
    \/ SearchReturn(t)
    \/ Plan(t)
    \/ SamplePage(t)
    \/ Finish(t)

(***************************************************************************)
(* The leaderboards the remote may hold.  A board has its pagination and   *)
(* its pages of RowsPerPage rows, ranks ascending; pages 1..k hold the     *)
(* submitted scores.  A shape picks the kinds of rows.                     *)
(***************************************************************************)
MaxPages == 8

MaxBuckets == 3

CurveCalls == 1

RECURSIVE NumChars(_)
NumChars(n) ==
    IF n < 10 THEN <<Digits[n + 1]>>
    ELSE NumChars(n \div 10) \o <<Digits[(n % 10) + 1]>>

RepsText(n) == Str(NumChars(n) \o <<" ", "r", "e", "p", "s">>)

TimeText == Str(<<"1", "1", ":", "1", "6">>)

DnfText == Str(<<"D", "N", "F">>)

BlankText == Str(<<>>)

\* one row of each kind the code tells apart
RowOf(kind, rank, reps) ==
    CASE kind = "reps"    -> Row(Num(rank), ScoreList(<<Score(RepsText(reps), NoText, "1")>>))
      [] kind = "time"    -> Row(Num(rank), ScoreList(<<Score(TimeText, RepsText(reps), "1")>>))
      [] kind = "dnf"     -> Row(Num(rank), ScoreList(<<Score(DnfText, NoText, "1")>>))
      [] kind = "invalid" -> Row(Num(rank), ScoreList(<<Score(RepsText(reps), NoText, "0")>>))
      [] kind = "ghost"   -> Row(Num(rank), ScoreList(<<Score(BlankText, RepsText(reps), "1")>>))
      [] kind = "blank"   -> Row(Num(rank), ScoreList(<<Score(BlankText, NoText, "0")>>))
      [] kind = "nulls"   -> Row(Num(rank), ScoreList(<<EmptyScore>>))
      [] kind = "absent"  -> Row(Num(rank), NoScores)
      [] kind = "empty"   -> Row(Num(rank), ScoreList(<<>>))
      [] kind = "norank"  -> Row(Null, ScoreList(<<Score(RepsText(reps), NoText, "1")>>))
      [] kind = "badrank" -> Row(Bad, ScoreList(<<Score(RepsText(reps), NoText, "1")>>))

RepsOf(rank) == 60 - rank

Shape(lead, edge, tail, dup, tp, tc) ==
    [lead |-> lead, edge |-> edge, tail |-> tail, dup |-> dup, tp |-> tp, tc |-> tc]

\* page p of a board of k pages with submissions; with dup # 0 the first
\* row of page p repeats the last rank of page p - 1 with other reps
PageRows(p, k, sh) ==
    LET a == 2 * p - 1
        b == 2 * p
    IN  IF p > k THEN <<RowOf(sh.tail, a, 0), RowOf(sh.tail, b, 0)>>
        ELSE <<IF sh.dup # 0 /\ p > 1
               THEN RowOf(sh.lead, a - 1, RepsOf(a - 1) + sh.dup)
               ELSE RowOf(sh.lead, a, RepsOf(a)),
               IF p = k THEN RowOf(sh.edge, b, RepsOf(b))
               ELSE RowOf("reps", b, RepsOf(b))>>

JsonOf(kind, n) == CASE kind = "num" -> Num(n) [] kind = "null" -> Null [] kind = "bad" -> Bad

MakeBoard(total, k, sh) ==
    [pagination |-> [totalPages |-> JsonOf(sh.tp, total),
                     totalCompetitors |-> JsonOf(sh.tc, 2 * total)],
     pages |-> [p \in 1..total |-> PageRows(p, k, sh)]]

CurveShapes ==
    { Shape("reps", "blank", "blank", 0, "num", "num"),
      Shape("time", "reps", "absent", 0, "num", "num"),
      Shape("blank", "reps", "nulls", 0, "num", "num"),
      Shape("reps", "ghost", "blank", 0, "num", "num"),
      Shape("reps", "dnf", "absent", 0, "num", "null"),
      Shape("invalid", "invalid", "blank", 0, "num", "num"),
      Shape("reps", "reps", "blank", 4, "num", "num"),
      Shape("reps", "reps", "blank", -4, "num", "num"),
      Shape("reps", "reps", "blank", 0, "null", "num"),
      Shape("reps", "reps", "blank", 0, "bad", "num"),
      Shape("reps", "reps", "blank", 0, "num", "bad") }

CurveBoards ==
    {MakeBoard(total, k, sh) : total \in 0..MaxPages, k \in 0..MaxPages, sh \in CurveShapes}

DefaultQuery == Query("1", "0")

NoProbe == [stage |-> "none"]

\* the process after start-up: _CACHE = {}, no request yet
InitService ==
    /\ cache = [k \in {} |-> 0]
    /\ clock = 0
    /\ calls = 0
    /\ log = <<>>
    /\ req = [t \in Threads |-> IdleReq]

InitCommon == InitService /\ probe = NoProbe

(***************************************************************************)
(* SpecCurve: one request at a time against a board that stays as it is.   *)
(***************************************************************************)
InitCurve ==
    /\ InitCommon
    /\ remote \in CurveBoards
    /\ dom = [inputs |-> {<<DefaultQuery, Num(b)>> : b \in 1..MaxBuckets},
              boards |-> <<remote>>, max_calls |-> CurveCalls]

NextCurve == Step("t1")

SpecCurve == InitCurve /\ [][NextCurve]_vars

(***************************************************************************)
(* Spec: the service with its request threads running side by side, time   *)
(* passing and the leaderboard changing.                                   *)
(***************************************************************************)
ServerCalls == 2

ServerShape == Shape("reps", "reps", "blank", 0, "num", "num")

\* the boards the remote goes through, in this order; the second has rows
\* with "scores": [] after its first page
ServerBoards ==
    << MakeBoard(3, 3, ServerShape),
       MakeBoard(3, 1, Shape("reps", "reps", "empty", 0, "num", "num")) >>

ServerInputs == { <<DefaultQuery, Num(3)>>, <<DefaultQuery, Num(0)>>, <<DefaultQuery, Bad>> }

Init ==
    /\ InitCommon
    /\ remote = ServerBoards[1]
    /\ dom = [inputs |-> ServerInputs, boards |-> ServerBoards, max_calls |-> ServerCalls]

Next ==
    \/ \E t \in Threads : Step(t)
    \/ Tick
    \/ RemoteChange

Spec == Init /\ [][Next]_vars

(***************************************************************************)
(* SpecCache: the same service on two-page boards, every call with the     *)
(* same query and bucket count.                                            *)
(***************************************************************************)
MaxCalls == 3

CacheBoards ==
    << MakeBoard(2, 2, ServerShape),
       MakeBoard(2, 1, Shape("time", "reps", "blank", 0, "num", "num")) >>

InitCache ==
    /\ InitCommon
    /\ remote = CacheBoards[1]
    /\ dom = [inputs |-> {<<DefaultQuery, Num(3)>>}, boards |-> CacheBoards,
              max_calls |-> MaxCalls]

SpecCache == InitCache /\ [][Next]_vars

(***************************************************************************)
(* SpecKeys: one thread, called with queries that differ in division and   *)
(* region (and in the bucket count).                                       *)
(***************************************************************************)
KeyCalls == 3

KeyInputs ==
    { <<Query("1", "0&region=0"), Num(3)>>,
      <<Query("1&region=0", "0"), Num(3)>>,
      <<Query("1", "0&region=0"), Num(1)>> }

InitKeys ==
    /\ InitCommon
    /\ remote = CacheBoards[1]
    /\ dom = [inputs |-> KeyInputs, boards |-> CacheBoards, max_calls |-> KeyCalls]

NextKeys ==
    \/ Step("t1")
    \/ Tick
    \/ RemoteChange

SpecKeys == InitKeys /\ [][NextKeys]_vars

(***************************************************************************)
(* SpecSampler: _make_page_samples and the caller's page 1, on their own.  *)
(***************************************************************************)
SamplerPages == 12

SamplerBuckets == 12

NoBoard == MakeBoard(0, 0, ServerShape)

InitPure ==
    /\ InitService
    /\ remote = NoBoard
    /\ dom = [inputs |-> {}, boards |-> <<NoBoard>>, max_calls |-> 0]

InitSampler ==
    /\ InitPure
    /\ probe \in {[stage |-> "in", total_pages |-> n, target_buckets |-> b, pages |-> <<>>] :
                     n \in 0..SamplerPages, b \in 1..SamplerBuckets}

\* sample_pages = _make_page_samples(last_sub_page, buckets)
Sample ==
    /\ probe.stage = "in"
    /\ probe' = [probe EXCEPT !.stage = "sampled",
                     !.pages = make_page_samples(probe.total_pages, probe.target_buckets).pages]
    /\ UNCHANGED <<remote, cache, clock, calls, log, req, dom>>

\* lines 193-194
ForceOne ==
    /\ probe.stage = "sampled"
    /\ probe' = [probe EXCEPT !.stage = "forced", !.pages = force_page_one(probe.pages)]
    /\ UNCHANGED <<remote, cache, clock, calls, log, req, dom>>

NextSampler == Sample \/ ForceOne

SpecSampler == InitSampler /\ [][NextSampler]_vars

(***************************************************************************)
(* SpecExtract: _extract_points_from_page on pages of every kind of row.   *)
(***************************************************************************)
MaxRows == 2

RowKinds == {"reps", "time", "dnf", "invalid", "ghost", "blank", "nulls", "absent",
             "empty", "norank", "badrank"}

ExtractRows == {RowOf(kind, rank, 5) : kind \in RowKinds, rank \in {0, 2}}

ExtractPages ==
    UNION {[1..n -> ExtractRows] : n \in 0..MaxRows}

InitExtract ==
    /\ InitPure
    /\ probe \in {[stage |-> "in",
                   page_json |-> PageJson([totalPages |-> Num(1), totalCompetitors |-> tc], rows),
                   fallback_total |-> fb, total_submitted |-> ts,
                   out |-> extract_points_from_page(EmptyJson, 0, 0)] :
                     rows \in ExtractPages, tc \in {Null, Num(4), Bad},
                     fb \in {0, 9}, ts \in {0, 1}}

\* pts, sub, tot = _extract_points_from_page(page_json, total_competitors, total_submitted)
Extract ==
    /\ probe.stage = "in"
    /\ probe' = [probe EXCEPT !.stage = "out",
                     !.out = extract_points_from_page(probe.page_json, probe.fallback_total,
                                                      probe.total_submitted)]
    /\ UNCHANGED <<remote, cache, clock, calls, log, req, dom>>

NextExtract == Extract

SpecExtract == InitExtract /\ [][NextExtract]_vars

(***************************************************************************)
(* The properties.  What a page or a board is like is stated here from the *)
(* rows themselves, not through the operators that model the code.         *)
(***************************************************************************)
HasDisplay(row) ==
    /\ row.scores.tag = "list"
    /\ row.scores.items # <<>>
    /\ row.scores.items[1].scoreDisplay.tag = "str"
    /\ row.scores.items[1].scoreDisplay.s # <<>>

HasBreakdown(row) ==
    /\ row.scores.tag = "list"
    /\ row.scores.items # <<>>
    /\ row.scores.items[1].breakdown.tag = "str"
    /\ row.scores.items[1].breakdown.s # <<>>

RowsOfPage(p) == IF p \in 1..Len(remote.pages) THEN remote.pages[p] ELSE <<>>

PageHasDisplay(p) == \E i \in 1..Len(RowsOfPage(p)) : HasDisplay(RowsOfPage(p)[i])

\* pages 1..k have submissions and pages k+1..total have none
MonotoneOracle(total, k) ==
    /\ k \in 1..total
    /\ \A p \in 1..total : PageHasDisplay(p) <=> p <= k

\* the search of a request has returned
Searched(r) == r.pc \in {"plan", "loop", "done"} /\ ~r.hit

RECURSIVE CeilLog2From(_, _, _)
CeilLog2From(n, e, pow) == IF pow >= n THEN e ELSE CeilLog2From(n, e + 1, 2 * pow)

CeilLog2(n) == CeilLog2From(n, 0, 1)

\* C1: with pages 1..k having submissions and pages k+1..total none
\* (total >= k >= 1), the search returns page number k and the data of page k.
C1_BoundaryFound ==
    \A t \in Threads : \A k \in 1..req[t].total_pages :
        (Searched(req[t]) /\ MonotoneOracle(req[t].total_pages, k))
            => /\ req[t].last_sub_page = k
               /\ req[t].last_json.present
               /\ req[t].last_json.leaderboardRows = RowsOfPage(k)

\* a search has ended on a boundary away from both ends
C1_Witness ==
    \E t \in Threads : \E k \in 2..(req[t].total_pages - 2) :
        /\ Searched(req[t])
        /\ MonotoneOracle(req[t].total_pages, k)
        /\ req[t].last_sub_page = k

\* the fetches of the search, the final re-fetch included, stay within
\* ceil(log2(total)) + 1
C2_FetchBound ==
    \A t \in Threads : \A k \in 1..req[t].total_pages :
        (req[t].pc \in {"search", "plan", "loop", "done", "failed"}
            /\ ~req[t].hit /\ MonotoneOracle(req[t].total_pages, k))
            => req[t].nsearch <= CeilLog2(req[t].total_pages) + 1

\* a probe that leaves the search running has narrowed lo..hi
C2_Narrows ==
    \A t \in Threads :
        (req[t].pc = "search" /\ req'[t].pc = "search" /\ req'[t] # req[t])
            => (req'[t].hi - req'[t].lo) < (req[t].hi - req[t].lo)

\* C2: with the same oracle the search never issues more than
\* ceil(log2(total)) + 1 fetches, the final re-fetch included, and every probe
\* narrows lo..hi, so that the search ends.
C2_SearchCost == [](C2_FetchBound) /\ [][C2_Narrows]_vars

\* a search of four pages or more whose boundary is page 1 has spent the
\* whole allowance, re-fetch included
C2_Witness ==
    \E t \in Threads :
        /\ Searched(req[t])
        /\ req[t].total_pages >= 4
        /\ MonotoneOracle(req[t].total_pages, 1)
        /\ req[t].nsearch = CeilLog2(req[t].total_pages) + 1

StrictlyAscending(pages) ==
    \A i \in 1..Len(pages) : (i < Len(pages)) => pages[i] < pages[i + 1]

\* C3: for boundary_page >= 1 and target_bucket_count >= 1 the sampler gives
\* a non-empty list of distinct pages, ascending, within 1..boundary_page, at
\* most target_bucket_count of them (one more once page 1 is forced in).
C3_SamplerBounds ==
    (probe.stage \in {"sampled", "forced"} /\ probe.total_pages >= 1)
        => /\ probe.pages # <<>>
           /\ StrictlyAscending(probe.pages)
           /\ \A i \in 1..Len(probe.pages) : probe.pages[i] \in 1..probe.total_pages
           /\ probe.stage = "sampled" => Len(probe.pages) <= probe.target_buckets
           /\ probe.stage = "forced" =>
                 /\ Len(probe.pages) <= probe.target_buckets + 1
                 /\ probe.pages[1] = 1

C3_Witness ==
    /\ probe.stage = "forced"
    /\ probe.target_buckets >= 2
    /\ Len(probe.pages) = probe.target_buckets + 1

\* a call that was served by a fresh computation and has returned
Computed(r) == r.pc = "done" /\ ~r.hit

\* the calls with the query and bucket count of r that had written the
\* cache when r looked it up
EarlierSame(r) ==
    {i \in 1..r.seen : log[i].q = r.q /\ log[i].buckets = r.buckets}

WithinTtl(r, i) == r.now >= log[i].ts /\ r.now - log[i].ts < CACHE_TTL_SECONDS

ServedFrom(r, i) == r.pc = "done" /\ r.hit /\ r.fetches = 0 /\ r.payload = log[i].payload

\* no computation wrote under the key of r between write i and the lookup
LastWrite(r, i) == \A j \in (i + 1)..r.seen : log[j].key # r.ck

\* C4 as stated: a call within the TTL window of any earlier successful call
\* with the same parameters issues no fetch and returns that call's payload.
C4_AnyEarlierCall ==
    \A t \in Threads : \A i \in EarlierSame(req[t]) :
        (req[t].pc # "idle" /\ WithinTtl(req[t], i)) => ServedFrom(req[t], i)

\* C4 amended: a call within the TTL window of an earlier successful call
\* with the same parameters, after which no other computation has written the
\* cache under that key, issues no fetch and returns that call's payload.
C4_CacheHit ==
    \A t \in Threads : \A i \in EarlierSame(req[t]) :
        (req[t].pc # "idle" /\ WithinTtl(req[t], i) /\ LastWrite(req[t], i))
            => ServedFrom(req[t], i)

\* a later call has been served from the cache inside the window
C4_Witness ==
    \E t \in Threads : \E i \in EarlierSame(req[t]) :
        /\ req[t].now > log[i].ts
        /\ WithinTtl(req[t], i)
        /\ ServedFrom(req[t], i)
        /\ log[i].payload # build_payload(req[t], <<>>)

\* every cache entry is the payload of a computation that went through all
\* of its sampled pages
C5_EntriesComplete ==
    \A k \in DOMAIN cache :
        \E i \in 1..Len(log) :
            /\ log[i].key = k
            /\ log[i].ts = cache[k].ts
            /\ log[i].payload = cache[k].payload
            /\ log[i].processed = log[i].payload.meta.sampledPages
            /\ log[i].processed >= 1

\* the only step that changes the cache is the last step of a computation
\* that succeeds, and it sets that computation's own key and nothing else
C5_OnlySuccessWrites ==
    (cache' # cache) =>
        \E t \in Threads :
            /\ req[t].pc = "loop" /\ req[t].idx > Len(req[t].sample_pages)
            /\ req'[t].pc = "done" /\ ~req'[t].hit
            /\ DOMAIN cache' = DOMAIN cache \cup {req[t].ck}
            /\ cache'[req[t].ck] = [ts |-> req[t].now, payload |-> req'[t].payload]
            /\ \A k \in DOMAIN cache : k # req[t].ck => cache'[k] = cache[k]

\* C5: every cache entry is the payload of a computation that went through
\* all of its sampled pages, and the only step that changes the cache is the
\* last step of a computation that succeeds, which sets its own key; so a
\* computation that fails has written nothing.
C5_CacheWrittenOnSuccess == [](C5_EntriesComplete) /\ [][C5_OnlySuccessWrites]_vars

\* two computations were in flight together; one failed in its page
\* sampling, the other wrote the cache
C5_Witness ==
    \E t, u \in Threads :
        /\ req[t].pc = "failed" /\ req[t].err = "transport"
        /\ req[t].idx >= 1 /\ req[t].sample_pages # <<>> /\ req[t].seen = 0
        /\ Computed(req[u]) /\ req[u].seen = 0
        /\ req[u].ck \in DOMAIN cache

\* C6: with totalPages or totalCompetitors absent or non-numeric in the
\* metadata the computation goes on with zero and does not fail (unless a
\* fetch fails): boundary page 1 and sampled pages {1}.
C6_MalformedPagination ==
    \A t \in Threads :
        LET r  == req[t]
            tp == remote.pagination.totalPages
            tc == remote.pagination.totalCompetitors
        IN  (r.pc # "idle" /\ (tp.tag # "num" \/ tc.tag # "num"))
                => /\ r.pc = "failed" => r.err = "transport"
                   /\ (tp.tag # "num" /\ r.pc \in {"loop", "done"})
                         => /\ r.total_pages = 0
                            /\ r.last_sub_page = 1
                            /\ r.sample_pages = <<1>>
                   /\ (tc.tag # "num" /\ r.pc \in {"search", "plan", "loop", "done"})
                         => r.total_competitors = 0

RanksOf(points) == {points[i].rank : i \in 1..Len(points)}

RepsOfRank(points, r) == {points[i].reps : i \in {j \in 1..Len(points) : points[j].rank = r}}

\* C7: after the merge every rank is in the curve once, with the largest
\* value any emitted point of that rank has.
C7_DedupKeepsMax ==
    \A t \in Threads :
        Computed(req[t]) =>
            LET all == req[t].all_points
                pts == req[t].payload.points
            IN  /\ RanksOf(pts) = RanksOf(all)
                /\ \A i, j \in 1..Len(pts) : pts[i].rank = pts[j].rank => i = j
                /\ \A i \in 1..Len(pts) :
                       /\ pts[i].reps \in RepsOfRank(all, pts[i].rank)
                       /\ \A v \in RepsOfRank(all, pts[i].rank) : v <= pts[i].reps

\* a rank was emitted twice, the larger value first
C7_Witness ==
    \E t \in Threads :
        /\ Computed(req[t])
        /\ \E i, j \in 1..Len(req[t].all_points) :
              /\ i < j
              /\ req[t].all_points[i].rank = req[t].all_points[j].rank
              /\ req[t].all_points[i].reps > req[t].all_points[j].reps

Positions == {<<p, i>> : p \in 1..Len(remote.pages), i \in 1..2}

RowAt(pos) == remote.pages[pos[1]][pos[2]]

Before(a, b) == a[1] < b[1] \/ (a[1] = b[1] /\ a[2] < b[2])

\* the rows are ordered by ascending rank (1-based) across the pages
AscendingRanks ==
    /\ \A a \in Positions : RowAt(a).overallRank.tag = "num" /\ RowAt(a).overallRank.n >= 1
    /\ \A a, b \in Positions : Before(a, b) => RowAt(a).overallRank.n < RowAt(b).overallRank.n

DisplayedRanks(p) ==
    {RowsOfPage(p)[i].overallRank.n : i \in {j \in 1..Len(RowsOfPage(p)) : HasDisplay(RowsOfPage(p)[j])}}

MaxDisplayedRank(p) == CHOOSE m \in DisplayedRanks(p) : \A x \in DisplayedRanks(p) : x <= m

EndToEnd(r, k) ==
    /\ r.payload.meta.lastSubmissionPage = k
    /\ \A i \in 1..Len(r.sample_pages) : r.sample_pages[i] \in 1..k
    /\ r.payload.meta.totalSubmitted = MaxDisplayedRank(k)
    /\ \A i \in 1..Len(r.payload.points) :
           r.payload.points[i].rank <= r.payload.meta.totalSubmitted

Scenario(r, k) ==
    /\ Computed(r)
    /\ r.total_pages = Len(remote.pages)
    /\ MonotoneOracle(r.total_pages, k)
    /\ AscendingRanks

\* C8 as stated: ranks ascending across the pages, submissions on pages 1..k
\* only: lastSubmissionPage = k, the sampled pages are in 1..k, and no
\* point has a rank above totalSubmitted.
C8_AnyLeaderboard ==
    \A t \in Threads : \A k \in 1..req[t].total_pages :
        Scenario(req[t], k) => EndToEnd(req[t], k)

\* no row has a breakdown without a score display
NoBareBreakdown == \A a \in Positions : HasBreakdown(RowAt(a)) => HasDisplay(RowAt(a))

\* C8 amended: the same, for a leaderboard in which no row has a breakdown
\* but an empty score display.
C8_EndToEnd ==
    \A t \in Threads : \A k \in 1..req[t].total_pages :
        (Scenario(req[t], k) /\ NoBareBreakdown) => EndToEnd(req[t], k)

\* the scenario with a boundary away from both ends and three buckets
C8_Witness ==
    \E t \in Threads : \E k \in 2..(req[t].total_pages - 2) :
        /\ Scenario(req[t], k) /\ NoBareBreakdown
        /\ req[t].buckets = 3
        /\ Len(req[t].payload.points) >= 3
        /\ EndToEnd(req[t], k)

\* the rows of the page that was handed to the extraction
ProbeRows == probe.page_json.leaderboardRows

RankIsPositive(row) == row.overallRank.tag = "num" /\ row.overallRank.n > 0

ScoreOf(row) ==
    IF row.scores.tag = "list" /\ row.scores.items # <<>> THEN row.scores.items[1]
    ELSE EmptyScore

Extractable(row) == parse_reps(ScoreOf(row).scoreDisplay, ScoreOf(row).breakdown).found

\* validity flag true and a value extractable
SubmittedScore(row) == ScoreOf(row).valid = "1" /\ Extractable(row)

\* the points are those of the rows in Q, one each, in the order of the rows
PointsAreRows(points, Q) ==
    /\ Len(points) = Cardinality(Q)
    /\ \A j \in 1..Len(points) :
          LET i == SortedSeq(Q)[j]
          IN  /\ points[j].rank = ProbeRows[i].overallRank.n
              /\ points[j].reps = parse_reps(ScoreOf(ProbeRows[i]).scoreDisplay,
                                             ScoreOf(ProbeRows[i]).breakdown).val

Extracted == probe.stage = "out" /\ probe.out.ok

\* C9 as stated: one point for each row with a submitted score and rank > 0,
\* none for any other row.
C9_SubmittedRowsOnly ==
    Extracted =>
        PointsAreRows(probe.out.points,
            {i \in 1..Len(ProbeRows) :
                SubmittedScore(ProbeRows[i]) /\ RankIsPositive(ProbeRows[i])})

\* total_submitted if it is not 0, else the page's totalCompetitors if it is
\* not 0, else the fallback
ProbeBase ==
    IF probe.total_submitted # 0 THEN probe.total_submitted
    ELSE IF probe.page_json.pagination.totalCompetitors.tag = "num"
            /\ probe.page_json.pagination.totalCompetitors.n # 0
         THEN probe.page_json.pagination.totalCompetitors.n
    ELSE probe.fallback_total

\* C9 amended: one point for each row with an extractable value and rank > 0,
\* whatever its validity flag, when the percentile base is above 0; no point
\* for any other row, and none at all when the base is 0 or less.
C9_PointEmission ==
    Extracted =>
        PointsAreRows(probe.out.points,
            {i \in 1..Len(ProbeRows) :
                Extractable(ProbeRows[i]) /\ RankIsPositive(ProbeRows[i]) /\ ProbeBase > 0})

\* a row whose validity flag is not "1" has given a point
C9_Witness ==
    /\ Extracted
    /\ Len(ProbeRows) = 2
    /\ Len(probe.out.points) = 1
    /\ \E i \in 1..Len(ProbeRows) :
          /\ ScoreOf(ProbeRows[i]).valid # "1"
          /\ Extractable(ProbeRows[i]) /\ RankIsPositive(ProbeRows[i])

\* C10: calls whose (division, region, scaled, view, sort, buckets) differ
\* have different cache keys, and a call served from the cache gets a curve
\* that was computed for its own query and bucket count.
C10_KeysIsolate ==
    \A t \in Threads :
        req[t].pc \in {"meta", "search", "plan", "loop", "done"} =>
            /\ \A i \in 1..Len(log) :
                  log[i].key = req[t].ck
                      => log[i].q = req[t].q /\ log[i].buckets = req[t].buckets
            /\ req[t].hit =>
                  /\ req[t].payload.meta.division = req[t].q.division
                  /\ req[t].payload.meta.region = req[t].q.region

=============================================================================
